---- MODULE Spec2Model ----
(***************************************************************************)
(* A state-machine model of the simulation engine of tetris_balatro.py:    *)
(* the TetrisGame session (grid, falling piece, deck, round state,         *)
(* upgrades, jokers, hold slot) and the handlers that run() dispatches to. *)
(*                                                                         *)
(* Conventions.                                                            *)
(*  - Python lists are TLA+ sequences, so Python index i is TLA+ index     *)
(*    i+1; coordinates (x, y), shape indices and row numbers keep their    *)
(*    Python (0-based) values everywhere else.                             *)
(*  - Every method of TetrisGame is an operator on a session record S      *)
(*    (one field per attribute of self) that returns the session after     *)
(*    the call, so methods compose exactly as they call each other.        *)
(*  - upgrades['score_multiplier'] is a float that only ever takes the     *)
(*    values 1.0 + 0.5k; it is stored in units of 0.5 (2 stands for 1.0).  *)
(*  - The results of random.choice and random.random are inputs of the     *)
(*    actions, drawn with \E.                                              *)
(***************************************************************************)
EXTENDS Integers, Sequences, FiniteSets, TLC

----------------------------------------------------------------------------
(* Program constants *)

GRID_WIDTH == 10
GRID_HEIGHT == 20

SHAPES ==
  << << <<1, 1, 1, 1>> >>,
     << <<1, 1>>, <<1, 1>> >>,
     << <<0, 1, 0>>, <<1, 1, 1>> >>,
     << <<0, 1, 1>>, <<1, 1, 0>> >>,
     << <<1, 1, 0>>, <<0, 1, 1>> >>,
     << <<1, 0, 0>>, <<1, 1, 1>> >>,
     << <<0, 0, 1>>, <<1, 1, 1>> >> >>

NumShapes == Len(SHAPES)

\* GameState
MENU == "MENU"
PLAYING == "PLAYING"
SHOP == "SHOP"
PACK_OPENING == "PACK_OPENING"
GAME_OVER == "GAME_OVER"

\* PackType
BASIC == "BASIC"
PREMIUM == "PREMIUM"
STRAIGHT == "STRAIGHT"

DoublePoints == "Double Points"
LineBonus == "Line Bonus"
LevelBoost == "Level Boost"

\* [0, 100, 300, 500, 800] of clear_lines
LineScoreTable == <<0, 100, 300, 500, 800>>

----------------------------------------------------------------------------
(* Bounds of the model *)

\* random.choice(piece_deck) is explored for the first MaxDraw deck positions
MaxDraw == 2
\* pieces locked in one run; afterwards no key command arrives any more
MaxLocks == 1
\* the frame times update(dt) is explored with, in milliseconds
DtShort == 300
DtLong == 1100
\* the empty rows above the stack in the positions the runs start from
FreeRows == 4
\* purchase clicks, add-to-deck clicks and K_ESCAPE in the shop and the pack
\* screen in one run; afterwards the shop
\* only takes the continue button
MaxClicks == 2
\* random.randint(0, len(SHAPES) - 1) of open_pack is explored for 0..MaxPackShape
MaxPackShape == 1

----------------------------------------------------------------------------
(* Tetromino *)

NoPiece == << >>

\* Tetromino.__init__ (is_bomb is attached by spawn_piece)
Tetromino(shape_index, x, y) ==
  [shape_index |-> shape_index, shape |-> SHAPES[shape_index + 1],
   x |-> x, y |-> y, is_bomb |-> FALSE]

\* rotate with the column index stuck at the first column
rotate_FirstColumn(shape) ==
  LET h == Len(shape)
      w == Len(shape[1])
  IN  [r \in 1..w |-> [c \in 1..h |-> shape[h - c + 1][1]]]

\* Tetromino.rotate: [list(row) for row in zip(*self.shape[::-1])]
rotate(shape) ==
  LET h == Len(shape)
      w == Len(shape[1])
  IN  [r \in 1..w |-> [c \in 1..h |-> shape[h - c + 1][r]]]

\* Tetromino.get_cells: the occupied cells in row-major order, as <<x, y>>
get_cells(p) ==
  LET h == Len(p.shape)
      w == Len(p.shape[1])
      all == [i \in 1..(h * w) |-> <<(i - 1) % w, (i - 1) \div w>>]
      occ == SelectSeq(all, LAMBDA c : p.shape[c[2] + 1][c[1] + 1] # 0)
  IN  [i \in 1..Len(occ) |-> <<p.x + occ[i][1], p.y + occ[i][2]>>]

----------------------------------------------------------------------------
(* TetrisGame: pure helpers *)

EmptyRow == [x \in 1..GRID_WIDTH |-> 0]
EmptyGrid == [y \in 1..GRID_HEIGHT |-> EmptyRow]

Max(a, b) == IF a >= b THEN a ELSE b
Min(a, b) == IF a <= b THEN a ELSE b

\* the loop body without `new_y >= 0`: grid[new_y] with new_y < 0 is a row
\* counted from the bottom
CellCollides_NoTopGuard(g, c, dx, dy) ==
  LET new_x == c[1] + dx
      new_y == c[2] + dy
  IN  \/ new_x < 0 \/ new_x >= GRID_WIDTH \/ new_y >= GRID_HEIGHT
      \/ g[((new_y + GRID_HEIGHT) % GRID_HEIGHT) + 1][new_x + 1] # 0

\* the body of the loop of check_collision for one cell
CellCollides(g, c, dx, dy) ==
  LET new_x == c[1] + dx
      new_y == c[2] + dy
  IN  \/ new_x < 0 \/ new_x >= GRID_WIDTH \/ new_y >= GRID_HEIGHT
      \/ (new_y >= 0 /\ g[new_y + 1][new_x + 1] # 0)

\* TetrisGame.check_collision(dx, dy) for the current piece
check_collision(S, dx, dy) ==
  IF S.current_piece = NoPiece THEN FALSE
  ELSE LET cells == get_cells(S.current_piece[1])
       IN  \E i \in 1..Len(cells) : CellCollides(S.grid, cells[i], dx, dy)

\* the refill with range(len(SHAPES) - 1)
RefilledDeck_Short(deck) ==
  IF deck = << >> THEN [i \in 1..(NumShapes - 1) |-> i - 1] ELSE deck

\* TetrisGame.get_random_piece_from_deck; pick is the position random.choice takes
RefilledDeck(deck) == IF deck = << >> THEN [i \in 1..NumShapes |-> i - 1] ELSE deck

get_random_piece_from_deck(S, pick) ==
  LET deck == RefilledDeck(S.piece_deck)
  IN  [s |-> [S EXCEPT !.piece_deck = deck], ret |-> deck[pick]]

\* the positions random.choice is explored for
Picks(S) == 1..Min(MaxDraw, Len(RefilledDeck(S.piece_deck)))
\* the outcomes of `upgrades['bomb_piece'] and random.random() < 0.1`
Rolls(S) == IF S.upgrades.bomb_piece THEN BOOLEAN ELSE {FALSE}

\* spawn_piece without the game-over check
spawn_piece_NoCheck(S, pick, roll) ==
  LET shape_index == S.next_piece_index
      drawn == get_random_piece_from_deck(S, pick)
      piece == [Tetromino(shape_index, GRID_WIDTH \div 2 - 1, 0)
                  EXCEPT !.is_bomb = S.upgrades.bomb_piece /\ roll]
  IN  [drawn.s EXCEPT !.next_piece_index = drawn.ret,
                      !.current_piece = <<piece>>,
                      !.can_hold = TRUE]

\* spawn_piece that draws first and makes the piece of the shape just drawn
spawn_piece_DrawFirst(S, pick, roll) ==
  LET drawn == get_random_piece_from_deck(S, pick)
      piece == [Tetromino(drawn.ret, GRID_WIDTH \div 2 - 1, 0)
                  EXCEPT !.is_bomb = S.upgrades.bomb_piece /\ roll]
      S1 == [drawn.s EXCEPT !.next_piece_index = drawn.ret,
                            !.current_piece = <<piece>>,
                            !.can_hold = TRUE]
  IN  IF check_collision(S1, 0, 0)
      THEN [S1 EXCEPT !.game_over = TRUE, !.state = GAME_OVER]
      ELSE S1

\* TetrisGame.spawn_piece
spawn_piece(S, pick, roll) ==
  LET shape_index == S.next_piece_index
      drawn == get_random_piece_from_deck(S, pick)
      piece == [Tetromino(shape_index, GRID_WIDTH \div 2 - 1, 0)
                  EXCEPT !.is_bomb = S.upgrades.bomb_piece /\ roll]
      S1 == [drawn.s EXCEPT !.next_piece_index = drawn.ret,
                            !.current_piece = <<piece>>,
                            !.can_hold = TRUE]
  IN  IF check_collision(S1, 0, 0)
      THEN [S1 EXCEPT !.game_over = TRUE, !.state = GAME_OVER]
      ELSE S1

\* explode_bomb with range(-1, 1) for both offsets
explode_bomb_HalfOpen(S, bomb_x, bomb_y) ==
  LET g == [yy \in 1..GRID_HEIGHT |-> [xx \in 1..GRID_WIDTH |->
              IF /\ xx - 1 >= bomb_x - 1 /\ xx - 1 <= bomb_x
                 /\ yy - 1 >= bomb_y - 1 /\ yy - 1 <= bomb_y
              THEN 0 ELSE S.grid[yy][xx]]]
  IN  [S EXCEPT !.grid = g,
                !.score = @ + (200 * S.upgrades.score_multiplier) \div 2]

\* TetrisGame.explode_bomb
explode_bomb(S, bomb_x, bomb_y) ==
  LET g == [yy \in 1..GRID_HEIGHT |-> [xx \in 1..GRID_WIDTH |->
              IF /\ xx - 1 >= bomb_x - 1 /\ xx - 1 <= bomb_x + 1
                 /\ yy - 1 >= bomb_y - 1 /\ yy - 1 <= bomb_y + 1
              THEN 0 ELSE S.grid[yy][xx]]]
  IN  [S EXCEPT !.grid = g,
                !.score = @ + (200 * S.upgrades.score_multiplier) \div 2]

\* the rows of clear_lines' first loop: every y with all(self.grid[y]), ascending
FullRows(g) ==
  SelectSeq([i \in 1..Len(g) |-> i - 1],
            LAMBDA y : \A x \in 1..GRID_WIDTH : g[y + 1][x] # 0)

\* the rows deleted from the last to the first, each with its insert
RECURSIVE RemoveLines_Descending(_, _, _)
RemoveLines_Descending(g, lines, i) ==
  IF i > Len(lines) THEN g
  ELSE LET y == lines[Len(lines) + 1 - i]
           deleted == SubSeq(g, 1, y) \o SubSeq(g, y + 2, Len(g))
       IN  RemoveLines_Descending(<<EmptyRow>> \o deleted, lines, i + 1)

\* every `del self.grid[y]` first, the inserts after the last of them
RECURSIVE RemoveLines_DeleteThenInsert(_, _, _)
RemoveLines_DeleteThenInsert(g, lines, i) ==
  IF i > Len(lines) THEN [k \in 1..Len(lines) |-> EmptyRow] \o g
  ELSE LET y == lines[i]
       IN  RemoveLines_DeleteThenInsert(SubSeq(g, 1, y) \o SubSeq(g, y + 2, Len(g)),
                                        lines, i + 1)

\* the loop over lines_to_clear[:-1]: the last full row stays
RECURSIVE RemoveLines_SkipLast(_, _, _)
RemoveLines_SkipLast(g, lines, i) ==
  IF i >= Len(lines) THEN g
  ELSE LET y == lines[i]
           deleted == SubSeq(g, 1, y) \o SubSeq(g, y + 2, Len(g))
       IN  RemoveLines_SkipLast(<<EmptyRow>> \o deleted, lines, i + 1)

\* `del self.grid[y]; self.grid.insert(0, [0]*GRID_WIDTH)` for each y in turn
RECURSIVE RemoveLines(_, _, _)
RemoveLines(g, lines, i) ==
  IF i > Len(lines) THEN g
  ELSE LET y == lines[i]
           deleted == SubSeq(g, 1, y) \o SubSeq(g, y + 2, Len(g))
       IN  RemoveLines(<<EmptyRow>> \o deleted, lines, i + 1)

\* the jokers applied from the last acquired to the first
RECURSIVE ApplyJokers_Reversed(_, _, _, _)
ApplyJokers_Reversed(base_score, jokers, i, lines_cleared) ==
  IF i > Len(jokers) THEN base_score
  ELSE LET joker == jokers[Len(jokers) + 1 - i]
       IN  ApplyJokers_Reversed(
             IF joker = DoublePoints THEN base_score * 2
             ELSE IF joker = LineBonus THEN base_score + 50 * lines_cleared
             ELSE base_score,
             jokers, i + 1, lines_cleared)

\* `for joker in self.jokers: ...` of clear_lines
RECURSIVE ApplyJokers(_, _, _, _)
ApplyJokers(base_score, jokers, i, lines_cleared) ==
  IF i > Len(jokers) THEN base_score
  ELSE ApplyJokers(
         IF jokers[i] = DoublePoints THEN base_score * 2
         ELSE IF jokers[i] = LineBonus THEN base_score + 50 * lines_cleared
         ELSE base_score,
         jokers, i + 1, lines_cleared)

\* clear_lines with `>` for `>=` in the level check
clear_lines_StrictThreshold(S) ==
  LET lines_to_clear == FullRows(S.grid)
      n == Len(lines_to_clear)
  IN  IF n = 0 THEN S
      ELSE
        LET base0 == LineScoreTable[n + 1] * S.level
            base1 == ApplyJokers(base0, S.jokers, 1, n)
            gain == (base1 * S.upgrades.score_multiplier) \div 2
                    + S.upgrades.extra_lines * 100
            total == S.lines_cleared + n
            up == total > S.level * 10
        IN  [S EXCEPT !.grid = RemoveLines(S.grid, lines_to_clear, 1),
                      !.score = @ + gain,
                      !.lines_cleared = total,
                      !.level = IF up THEN @ + 1 ELSE @,
                      !.fall_speed = IF up THEN Max(100, @ - 50) ELSE @]

\* clear_lines with the fall speed raised by 50 at a level-up
clear_lines_Slower(S) ==
  LET lines_to_clear == FullRows(S.grid)
      n == Len(lines_to_clear)
  IN  IF n = 0 THEN S
      ELSE
        LET base0 == LineScoreTable[n + 1] * S.level
            base1 == ApplyJokers(base0, S.jokers, 1, n)
            gain == (base1 * S.upgrades.score_multiplier) \div 2
                    + S.upgrades.extra_lines * 100
            total == S.lines_cleared + n
            up == total >= S.level * 10
        IN  [S EXCEPT !.grid = RemoveLines(S.grid, lines_to_clear, 1),
                      !.score = @ + gain,
                      !.lines_cleared = total,
                      !.level = IF up THEN @ + 1 ELSE @,
                      !.fall_speed = IF up THEN Max(100, @ + 50) ELSE @]

\* clear_lines with the level check against 10 times the next level
clear_lines_NextLevelThreshold(S) ==
  LET lines_to_clear == FullRows(S.grid)
      n == Len(lines_to_clear)
  IN  IF n = 0 THEN S
      ELSE
        LET base0 == LineScoreTable[n + 1] * S.level
            base1 == ApplyJokers(base0, S.jokers, 1, n)
            gain == (base1 * S.upgrades.score_multiplier) \div 2
                    + S.upgrades.extra_lines * 100
            total == S.lines_cleared + n
            up == total >= (S.level + 1) * 10
        IN  [S EXCEPT !.grid = RemoveLines(S.grid, lines_to_clear, 1),
                      !.score = @ + gain,
                      !.lines_cleared = total,
                      !.level = IF up THEN @ + 1 ELSE @,
                      !.fall_speed = IF up THEN Max(100, @ - 50) ELSE @]

\* TetrisGame.clear_lines
clear_lines(S) ==
  LET lines_to_clear == FullRows(S.grid)
      n == Len(lines_to_clear)
  IN  IF n = 0 THEN S
      ELSE
        LET base0 == LineScoreTable[n + 1] * S.level
            base1 == ApplyJokers(base0, S.jokers, 1, n)
            \* base_score *= score_multiplier; base_score += extra_lines * 100;
            \* int(base_score)
            gain == (base1 * S.upgrades.score_multiplier) \div 2
                    + S.upgrades.extra_lines * 100
            total == S.lines_cleared + n
            up == total >= S.level * 10
        IN  [S EXCEPT !.grid = RemoveLines(S.grid, lines_to_clear, 1),
                      !.score = @ + gain,
                      !.lines_cleared = total,
                      !.level = IF up THEN @ + 1 ELSE @,
                      !.fall_speed = IF up THEN Max(100, @ - 50) ELSE @]

\* the first loop of lock_piece
RECURSIVE WriteCells(_, _, _, _)
WriteCells(g, cells, i, v) ==
  IF i > Len(cells) THEN g
  ELSE LET x == cells[i][1]
           y == cells[i][2]
       IN  WriteCells(IF y >= 0 THEN [g EXCEPT ![y + 1][x + 1] = v] ELSE g,
                      cells, i + 1, v)

\* lock_piece up to the call of clear_lines: the cells written, the bomb exploded
StampPiece(S) ==
  LET p == S.current_piece[1]
      S1 == [S EXCEPT !.grid = WriteCells(S.grid, get_cells(p), 1, p.shape_index + 1)]
  IN  IF p.is_bomb THEN explode_bomb(S1, p.x, p.y) ELSE S1

\* lock_piece with the lines cleared before the bomb explodes
lock_piece_ClearFirst(S, pick, roll) ==
  LET p == S.current_piece[1]
      S1 == [S EXCEPT !.grid = WriteCells(S.grid, get_cells(p), 1, p.shape_index + 1)]
      S2 == clear_lines(S1)
  IN  spawn_piece(IF p.is_bomb THEN explode_bomb(S2, p.x, p.y) ELSE S2, pick, roll)

\* TetrisGame.lock_piece
lock_piece(S, pick, roll) == spawn_piece(clear_lines(StampPiece(S)), pick, roll)

\* move that forgets the vertical part of the step
move_HorizontalOnly(S, dx, dy) ==
  IF S.current_piece # NoPiece /\ ~check_collision(S, dx, dy)
  THEN [s |-> [S EXCEPT !.current_piece[1].x = @ + dx], ret |-> TRUE]
  ELSE [s |-> S, ret |-> FALSE]

\* TetrisGame.move
move(S, dx, dy) ==
  IF S.current_piece # NoPiece /\ ~check_collision(S, dx, dy)
  THEN [s |-> [S EXCEPT !.current_piece[1].x = @ + dx,
                        !.current_piece[1].y = @ + dy],
        ret |-> TRUE]
  ELSE [s |-> S, ret |-> FALSE]

\* the kick loop that keeps the last kick that fits, not the first
RECURSIVE FirstKick_Last(_, _, _)
FirstKick_Last(S, kicks, i) ==
  IF i > Len(kicks) THEN 0
  ELSE LET later == FirstKick_Last(S, kicks, i + 1)
       IN  IF later # 0 THEN later
           ELSE IF ~check_collision(S, kicks[i], 0) THEN kicks[i] ELSE 0

\* the kick loop of rotate_piece: the first kick_x of kicks[i..] that fits, or 0
RECURSIVE FirstKick(_, _, _)
FirstKick(S, kicks, i) ==
  IF i > Len(kicks) THEN 0
  ELSE IF ~check_collision(S, kicks[i], 0) THEN kicks[i]
  ELSE FirstKick(S, kicks, i + 1)

\* TetrisGame.rotate_piece
rotate_piece(S) ==
  IF S.current_piece = NoPiece THEN S
  ELSE
    LET original_shape == S.current_piece[1].shape
        R == [S EXCEPT !.current_piece[1].shape = rotate(@)]
    IN  IF check_collision(R, 0, 0)
        THEN LET kick_x == FirstKick(R, <<1, -1, 2, -2>>, 1)
             IN  IF kick_x # 0
                 THEN [R EXCEPT !.current_piece[1].x = @ + kick_x]
                 ELSE [R EXCEPT !.current_piece[1].shape = original_shape]
        ELSE R

\* hold_piece without `self.can_hold = False`
hold_piece_NoClear(S, pick, roll) ==
  IF S.current_piece = NoPiece THEN S
  ELSE IF S.upgrades.hold_piece /\ S.can_hold
  THEN IF S.held_piece = -1
       THEN spawn_piece([S EXCEPT !.held_piece = S.current_piece[1].shape_index],
                        pick, roll)
       ELSE [S EXCEPT !.held_piece = S.current_piece[1].shape_index,
                      !.current_piece[1].shape_index = S.held_piece,
                      !.current_piece[1].shape = SHAPES[S.held_piece + 1],
                      !.current_piece[1].x = GRID_WIDTH \div 2 - 1,
                      !.current_piece[1].y = 0]
  ELSE S

\* hold_piece whose swap leaves the geometry of the piece as it is
hold_piece_KeepGeometry(S, pick, roll) ==
  IF S.current_piece = NoPiece THEN S
  ELSE IF S.upgrades.hold_piece /\ S.can_hold
  THEN
    LET H == IF S.held_piece = -1
             THEN spawn_piece([S EXCEPT !.held_piece = S.current_piece[1].shape_index],
                              pick, roll)
             ELSE [S EXCEPT !.held_piece = S.current_piece[1].shape_index,
                            !.current_piece[1].shape_index = S.held_piece,
                            !.current_piece[1].x = GRID_WIDTH \div 2 - 1,
                            !.current_piece[1].y = 0]
    IN  [H EXCEPT !.can_hold = FALSE]
  ELSE S

\* TetrisGame.hold_piece
hold_piece(S, pick, roll) ==
  IF S.current_piece = NoPiece THEN S
  ELSE IF S.upgrades.hold_piece /\ S.can_hold
  THEN
    LET H == IF S.held_piece = -1
             THEN spawn_piece([S EXCEPT !.held_piece = S.current_piece[1].shape_index],
                              pick, roll)
             ELSE [S EXCEPT !.held_piece = S.current_piece[1].shape_index,
                            !.current_piece[1].shape_index = S.held_piece,
                            !.current_piece[1].shape = SHAPES[S.held_piece + 1],
                            !.current_piece[1].x = GRID_WIDTH \div 2 - 1,
                            !.current_piece[1].y = 0]
    IN  [H EXCEPT !.can_hold = FALSE]
  ELSE S

\* `if self.move(0, 1): drop_distance += 1`: one step at most
DropLoop_OneStep(S, drop_distance) ==
  LET m == move(S, 0, 1)
  IN  IF m.ret THEN [s |-> m.s, drop_distance |-> drop_distance + 1]
      ELSE [s |-> S, drop_distance |-> drop_distance]

\* `while self.move(0, 1): drop_distance += 1` of hard_drop
RECURSIVE DropLoop(_, _)
DropLoop(S, drop_distance) ==
  LET m == move(S, 0, 1)
  IN  IF m.ret THEN DropLoop(m.s, drop_distance + 1)
      ELSE [s |-> S, drop_distance |-> drop_distance]

\* hard_drop that awards 1 point per row
hard_drop_OnePoint(S, pick, roll) ==
  IF S.current_piece = NoPiece THEN S
  ELSE LET d == DropLoop(S, 0)
       IN  lock_piece([d.s EXCEPT !.score = @ + d.drop_distance], pick, roll)

\* TetrisGame.hard_drop
hard_drop(S, pick, roll) ==
  IF S.current_piece = NoPiece THEN S
  ELSE LET d == DropLoop(S, 0)
       IN  lock_piece([d.s EXCEPT !.score = @ + d.drop_distance * 2], pick, roll)

\* k gravity steps, one after the other
RECURSIVE Fall(_, _)
Fall(S, k) == IF k = 0 THEN S ELSE Fall(move(S, 0, 1).s, k - 1)

\* update that makes one gravity step for every interval the time spans
update_CatchUp(S, dt) ==
  IF S.state = PLAYING
  THEN
    LET S1 == IF S.current_piece # NoPiece
              THEN IF S.fall_time + dt >= S.fall_speed
                   THEN [Fall(S, (S.fall_time + dt) \div S.fall_speed)
                           EXCEPT !.fall_time = 0]
                   ELSE [S EXCEPT !.fall_time = @ + dt]
              ELSE S
    IN  IF S1.score >= S1.round_target
        THEN [S1 EXCEPT !.money = @ + 100 + S1.round_number * 50, !.state = SHOP]
        ELSE S1
  ELSE S

\* update that locks the piece when its gravity step is blocked
update_LockWhenBlocked(S, dt) ==
  IF S.state = PLAYING
  THEN
    LET S1 == IF S.current_piece # NoPiece
              THEN IF S.fall_time + dt >= S.fall_speed
                   THEN IF move(S, 0, 1).ret
                        THEN [move(S, 0, 1).s EXCEPT !.fall_time = 0]
                        ELSE [lock_piece(S, 1, FALSE) EXCEPT !.fall_time = 0]
                   ELSE [S EXCEPT !.fall_time = @ + dt]
              ELSE S
    IN  IF S1.score >= S1.round_target
        THEN [S1 EXCEPT !.money = @ + 100 + S1.round_number * 50, !.state = SHOP]
        ELSE S1
  ELSE S

\* TetrisGame.update
update(S, dt) ==
  IF S.state = PLAYING
  THEN
    LET S1 == IF S.current_piece # NoPiece
              THEN IF S.fall_time + dt >= S.fall_speed
                   THEN [move(S, 0, 1).s EXCEPT !.fall_time = 0]
                   ELSE [S EXCEPT !.fall_time = @ + dt]
              ELSE S
    IN  IF S1.score >= S1.round_target
        THEN [S1 EXCEPT !.money = @ + 100 + S1.round_number * 50, !.state = SHOP]
        ELSE S1
  ELSE S      \* the animation timers of the other states are not modelled

\* reset_game with a deck that lacks the last catalog shape
reset_game_ShortDeck(pick) ==
  LET deck == [i \in 1..(NumShapes - 1) |-> i - 1]
  IN  [grid |-> EmptyGrid,
       current_piece |-> NoPiece,
       next_piece_index |-> deck[pick],
       score |-> 0,
       lines_cleared |-> 0,
       level |-> 1,
       fall_time |-> 0,
       fall_speed |-> 500,
       game_over |-> FALSE,
       state |-> MENU,
       round_number |-> 1,
       round_target |-> 1000,
       money |-> 500,
       piece_deck |-> deck,
       jokers |-> << >>,
       upgrades |-> [score_multiplier |-> 2, extra_lines |-> 0,
                     hold_piece |-> FALSE, ghost_piece |-> FALSE,
                     bomb_piece |-> FALSE],
       held_piece |-> -1,
       can_hold |-> TRUE,
       pack_contents |-> << >>]

\* TetrisGame.reset_game; pick is the position random.choice takes
reset_game(pick) ==
  LET deck == [i \in 1..NumShapes |-> i - 1]
  IN  [grid |-> EmptyGrid,
       current_piece |-> NoPiece,
       next_piece_index |-> deck[pick],
       score |-> 0,
       lines_cleared |-> 0,
       level |-> 1,
       fall_time |-> 0,
       fall_speed |-> 500,
       game_over |-> FALSE,
       state |-> MENU,
       round_number |-> 1,
       round_target |-> 1000,
       money |-> 500,
       piece_deck |-> deck,
       jokers |-> << >>,
       upgrades |-> [score_multiplier |-> 2, extra_lines |-> 0,
                     hold_piece |-> FALSE, ghost_piece |-> FALSE,
                     bomb_piece |-> FALSE],
       held_piece |-> -1,
       can_hold |-> TRUE,
       pack_contents |-> << >>]

\* the `upgrades` list of draw_shop: name, cost, key, value (0.5 is one half)
ShopUpgrades ==
  <<[name |-> "Score Multiplier +0.5", cost |-> 200, key |-> "score_multiplier"],
    [name |-> "Extra Line Bonus", cost |-> 150, key |-> "extra_lines"],
    [name |-> "Hold Piece", cost |-> 300, key |-> "hold_piece"],
    [name |-> "Ghost Piece", cost |-> 250, key |-> "ghost_piece"],
    [name |-> "Bomb Pieces (10% chance)", cost |-> 400, key |-> "bomb_piece"]>>

\* the `jokers` list of draw_shop
ShopJokers ==
  <<[cost |-> 500, joker_name |-> DoublePoints],
    [cost |-> 300, joker_name |-> LineBonus],
    [cost |-> 400, joker_name |-> LevelBoost]>>

\* the button of upgrade i is drawn as owned, and takes no click
UpgradeOwned(S, i) ==
  /\ ShopUpgrades[i].key \in {"hold_piece", "ghost_piece", "bomb_piece"}
  /\ S.upgrades[ShopUpgrades[i].key]

\* a click on the button of upgrade i
buy_upgrade(S, i) ==
  LET u == ShopUpgrades[i]
  IN  IF S.money >= u.cost
      THEN [S EXCEPT !.money = @ - u.cost,
                     !.upgrades[u.key] =
                        IF u.key \in {"score_multiplier", "extra_lines"}
                        THEN @ + 1 ELSE TRUE]
      ELSE S

\* `joker_name in self.jokers`
JokerOwned(S, joker_name) == \E k \in 1..Len(S.jokers) : S.jokers[k] = joker_name

\* a click on the button of joker i
buy_joker(S, i) ==
  LET j == ShopJokers[i]
  IN  IF S.money >= j.cost
      THEN [S EXCEPT !.money = @ - j.cost, !.jokers = Append(@, j.joker_name)]
      ELSE S

\* the `packs` list of draw_shop
ShopPacks ==
  <<[cost |-> 100, pack_type |-> BASIC],
    [cost |-> 250, pack_type |-> PREMIUM],
    [cost |-> 200, pack_type |-> STRAIGHT]>>

\* TetrisGame.open_pack; coins[i] is `random.random() < 0.4` and draws[i] the
\* random.randint of the i-th piece
open_pack(S, pack_type, coins, draws) ==
  LET contents ==
        IF pack_type = BASIC THEN [i \in 1..3 |-> draws[i]]
        ELSE IF pack_type = PREMIUM
        THEN [i \in 1..5 |-> IF coins[i] THEN 0 ELSE draws[i]]
        ELSE [i \in 1..4 |-> 0]
  IN  [S EXCEPT !.pack_contents = contents, !.state = PACK_OPENING]

\* a click on the button of pack i
buy_pack(S, i, coins, draws) ==
  LET k == ShopPacks[i]
  IN  IF S.money >= k.cost
      THEN open_pack([S EXCEPT !.money = @ - k.cost], k.pack_type, coins, draws)
      ELSE S

\* the deck replaced by the contents of the pack
add_to_deck_Replace(S) ==
  [S EXCEPT !.piece_deck = S.pack_contents, !.state = SHOP]

\* a click on ADD TO DECK in draw_pack_opening
add_to_deck(S) ==
  [S EXCEPT !.piece_deck = @ \o S.pack_contents, !.state = SHOP]

\* start_next_round with Level Boost taking 50 ms off the fall speed
start_next_round_BoostFifty(S, pick1, pick2, roll) ==
  LET boost == JokerOwned(S, LevelBoost)
      S1 == [S EXCEPT !.round_number = @ + 1,
                      !.round_target = 1000 * (S.round_number + 1),
                      !.score = 0,
                      !.lines_cleared = 0,
                      !.level = IF boost THEN 1 + 2 ELSE 1,
                      !.fall_speed = IF boost THEN Max(100, 500 - 50) ELSE 500,
                      !.grid = EmptyGrid]
      drawn == get_random_piece_from_deck(S1, pick1)
      S2 == [drawn.s EXCEPT !.next_piece_index = drawn.ret]
  IN  [spawn_piece(S2, pick2, roll) EXCEPT !.state = PLAYING]

\* start_next_round with the target computed from the round that ended
start_next_round_StaleTarget(S, pick1, pick2, roll) ==
  LET boost == JokerOwned(S, LevelBoost)
      S1 == [S EXCEPT !.round_number = @ + 1,
                      !.round_target = 1000 * S.round_number,
                      !.score = 0,
                      !.lines_cleared = 0,
                      !.level = IF boost THEN 1 + 2 ELSE 1,
                      !.fall_speed = IF boost THEN Max(100, 500 - 100) ELSE 500,
                      !.grid = EmptyGrid]
      drawn == get_random_piece_from_deck(S1, pick1)
      S2 == [drawn.s EXCEPT !.next_piece_index = drawn.ret]
  IN  [spawn_piece(S2, pick2, roll) EXCEPT !.state = PLAYING]

\* start_next_round without `self.lines_cleared = 0`
start_next_round_KeepLines(S, pick1, pick2, roll) ==
  LET boost == JokerOwned(S, LevelBoost)
      S1 == [S EXCEPT !.round_number = @ + 1,
                      !.round_target = 1000 * (S.round_number + 1),
                      !.score = 0,
                      !.level = IF boost THEN 1 + 2 ELSE 1,
                      !.fall_speed = IF boost THEN Max(100, 500 - 100) ELSE 500,
                      !.grid = EmptyGrid]
      drawn == get_random_piece_from_deck(S1, pick1)
      S2 == [drawn.s EXCEPT !.next_piece_index = drawn.ret]
  IN  [spawn_piece(S2, pick2, roll) EXCEPT !.state = PLAYING]

\* TetrisGame.start_next_round; pick1 and pick2 are the two random.choice
start_next_round(S, pick1, pick2, roll) ==
  LET boost == JokerOwned(S, LevelBoost)
      S1 == [S EXCEPT !.round_number = @ + 1,
                      !.round_target = 1000 * (S.round_number + 1),
                      !.score = 0,
                      !.lines_cleared = 0,
                      !.level = IF boost THEN 1 + 2 ELSE 1,
                      !.fall_speed = IF boost THEN Max(100, 500 - 100) ELSE 500,
                      !.grid = EmptyGrid]
      drawn == get_random_piece_from_deck(S1, pick1)
      S2 == [drawn.s EXCEPT !.next_piece_index = drawn.ret]
  IN  [spawn_piece(S2, pick2, roll) EXCEPT !.state = PLAYING]

----------------------------------------------------------------------------
(* The session *)

VARIABLES grid, current_piece, next_piece_index, score, lines_cleared, level,
          fall_time, fall_speed, game_over, state, round_number, round_target,
          money, piece_deck, jokers, upgrades, held_piece, can_hold,
          pack_contents,
          last,     \* the handler that ran last, with what it was given
          pre,      \* self as it was when that handler was called
          locks,    \* the number of pieces locked so far in this run
          clicks,   \* the purchase clicks and K_ESCAPE taken by the shop so far
          rewards   \* the round rewards update has credited since the round began

vars == <<grid, current_piece, next_piece_index, score, lines_cleared, level,
          fall_time, fall_speed, game_over, state, round_number, round_target,
          money, piece_deck, jokers, upgrades, held_piece, can_hold,
          pack_contents, last, pre, locks, clicks, rewards>>

\* self, as a record
Session ==
  [grid |-> grid, current_piece |-> current_piece,
   next_piece_index |-> next_piece_index, score |-> score,
   lines_cleared |-> lines_cleared, level |-> level, fall_time |-> fall_time,
   fall_speed |-> fall_speed, game_over |-> game_over, state |-> state,
   round_number |-> round_number, round_target |-> round_target,
   money |-> money, piece_deck |-> piece_deck, jokers |-> jokers,
   upgrades |-> upgrades, held_piece |-> held_piece, can_hold |-> can_hold,
   pack_contents |-> pack_contents]

\* self is S after the step
Becomes(S) ==
  /\ grid' = S.grid
  /\ current_piece' = S.current_piece
  /\ next_piece_index' = S.next_piece_index
  /\ score' = S.score
  /\ lines_cleared' = S.lines_cleared
  /\ level' = S.level
  /\ fall_time' = S.fall_time
  /\ fall_speed' = S.fall_speed
  /\ game_over' = S.game_over
  /\ state' = S.state
  /\ round_number' = S.round_number
  /\ round_target' = S.round_target
  /\ money' = S.money
  /\ piece_deck' = S.piece_deck
  /\ jokers' = S.jokers
  /\ upgrades' = S.upgrades
  /\ held_piece' = S.held_piece
  /\ can_hold' = S.can_hold
  /\ pack_contents' = S.pack_contents

\* self is S now
Is(S) ==
  /\ grid = S.grid
  /\ current_piece = S.current_piece
  /\ next_piece_index = S.next_piece_index
  /\ score = S.score
  /\ lines_cleared = S.lines_cleared
  /\ level = S.level
  /\ fall_time = S.fall_time
  /\ fall_speed = S.fall_speed
  /\ game_over = S.game_over
  /\ state = S.state
  /\ round_number = S.round_number
  /\ round_target = S.round_target
  /\ money = S.money
  /\ piece_deck = S.piece_deck
  /\ jokers = S.jokers
  /\ upgrades = S.upgrades
  /\ held_piece = S.held_piece
  /\ can_hold = S.can_hold
  /\ pack_contents = S.pack_contents

Did(op, a, b, ret) == [op |-> op, a |-> a, b |-> b, ret |-> ret]

----------------------------------------------------------------------------
(* Positions of a game in progress that the runs start from.  Each is a     *)
(* state run() reaches; the comment of each says how.  Pieces are put down  *)
(* by K_DOWN until they rest and then K_SPACE, which scores 0 for the drop. *)

\* a row with the cells of `cols` settled from pieces of shape index `shape`
RowOf(cols, shape) == [x \in 1..GRID_WIDTH |-> IF x - 1 \in cols THEN shape + 1 ELSE 0]

\* two flat I pieces side by side at x = 0 and x = 4: columns 8 and 9 are empty
RowII == RowOf(0..7, 0)
\* the same with one cell of an upright I piece in column 8
RowIIi == RowOf(0..8, 0)
\* a flat I piece at x = 0, half an O piece at x = 4, a cell of an upright I at 8
RowIOi == [x \in 1..GRID_WIDTH |->
             IF x - 1 \in 0..3 \/ x - 1 = 8 THEN 1
             ELSE IF x - 1 \in 4..5 THEN 2 ELSE 0]
\* two flat I pieces side by side at x = 2 and x = 6: columns 0 and 1 are empty
Rowii == RowOf(2..9, 0)

\* the grid with FreeRows empty rows, then `rows` (top to bottom), then rows of
\* flat I pieces at x = 2 and x = 6, stacked from the floor
GridOf(rows) ==
  [y \in 1..GRID_HEIGHT |->
     IF y <= FreeRows THEN EmptyRow
     ELSE IF y <= FreeRows + Len(rows) THEN rows[y - FreeRows]
     ELSE Rowii]

\* on the stack, 4 flat I pieces: two rows that lack only columns 8 and 9
GridTwoRows == GridOf(<<RowII, RowII>>)
\* on the stack, an upright I in column 8 and 6 flat I pieces: three rows that
\* lack only column 9 under a row that holds the top of the upright I
GridWell3 == GridOf(<<RowOf({8}, 0), RowIIi, RowIIi, RowIIi>>)
\* on the stack, an upright I in column 8 and 8 flat I pieces: four rows that
\* lack only column 9
GridWell4 == GridOf(<<RowIIi, RowIIi, RowIIi, RowIIi>>)
\* on the stack, an upright I in column 8; two flat I at the bottom; above them
\* twice a flat I at x = 0 beside an O at x = 4; on top a flat I at x = 0 and
\* one at x = 4 that rests on the O.  The top and bottom of these four rows lack
\* only column 9, the two between them lack columns 6, 7 and 9
GridGap == GridOf(<<RowIIi, RowIOi, RowIOi, RowIIi>>)
\* the stack alone: every row below the free ones lacks columns 0 and 1
GridStack == GridOf(<< >>)
\* the stack, and on it cells of upright I pieces in column 7 up to the top row
GridTower ==
  [y \in 1..GRID_HEIGHT |-> IF y <= FreeRows THEN RowOf({7}, 0) ELSE Rowii]

\* round 1 as MENU's K_SPACE starts it, nothing scored yet
Round1 == [reset_game(1) EXCEPT !.state = PLAYING]
\* round 2 entered from the shop with nothing bought (500 + 150 money), after
\* 10 single-row clears at level 1: 1000 points, level 2, 450 ms
Round2Level2 ==
  [Round1 EXCEPT !.round_number = 2, !.round_target = 2000, !.money = 650,
                 !.score = 1000, !.lines_cleared = 10, !.level = 2,
                 !.fall_speed = 450]
\* round 3; Double Points bought in the first shop (650 - 500), Line Bonus in
\* the second (150 + 200 - 300)
Round3DoubleLine ==
  [Round1 EXCEPT !.round_number = 3, !.round_target = 3000, !.money = 50,
                 !.jokers = <<DoublePoints, LineBonus>>]
\* round 3; Line Bonus bought in the first shop (650 - 300), Double Points in
\* the second (350 + 200 - 500)
Round3LineDouble ==
  [Round1 EXCEPT !.round_number = 3, !.round_target = 3000, !.money = 50,
                 !.jokers = <<LineBonus, DoublePoints>>]
\* round 2; "Score Multiplier +0.5" and "Extra Line Bonus" bought (650 - 350)
Round2Multiplier ==
  [Round1 EXCEPT !.round_number = 2, !.round_target = 2000, !.money = 300,
                 !.upgrades.score_multiplier = 3, !.upgrades.extra_lines = 1]
\* round 2; "Bomb Pieces" bought (650 - 400)
Round2Bomb ==
  [Round1 EXCEPT !.round_number = 2, !.round_target = 2000, !.money = 250,
                 !.upgrades.bomb_piece = TRUE]
\* round 2; "Hold Piece" bought (650 - 300)
Round2Hold ==
  [Round1 EXCEPT !.round_number = 2, !.round_target = 2000, !.money = 350,
                 !.upgrades.hold_piece = TRUE]

\* round 2 with "Hold Piece" bought, an I piece held for an earlier piece and
\* a piece locked since
Round2Held == [Round2Hold EXCEPT !.held_piece = 0]
\* round 2; a Straight Pack bought in the first shop (650 - 200) and added to
\* the deck
Round2StraightPack ==
  [Round1 EXCEPT !.round_number = 2, !.round_target = 2000, !.money = 450,
                 !.piece_deck = @ \o <<0, 0, 0, 0>>,
                 !.pack_contents = <<0, 0, 0, 0>>]
\* round 3; "Bomb Pieces" bought in the first shop (650 - 400), "Score
\* Multiplier +0.5" in the second (250 + 200 - 200)
Round3BombMultiplier ==
  [Round1 EXCEPT !.round_number = 3, !.round_target = 3000, !.money = 250,
                 !.upgrades.bomb_piece = TRUE, !.upgrades.score_multiplier = 3]
\* round 1 after 8 single-row clears at level 1
Round1Lines8 == [Round1 EXCEPT !.score = 800, !.lines_cleared = 8]
\* round 47 entered with nothing ever bought (500 + 46 * 100 + 50 * 1081
\* money), after 89 single-row clears, ten at each level from 1 to 8 and nine
\* at level 9: 44100 points, and the fall speed at its floor since level 9
Round47Level9 ==
  [Round1 EXCEPT !.round_number = 47, !.round_target = 47000, !.money = 59150,
                 !.score = 44100, !.lines_cleared = 89, !.level = 9,
                 !.fall_speed = 100]

\* the session `round` right after spawn_piece made a piece of `shape`
Position(round, g, shape, is_bomb, next) ==
  [round EXCEPT !.grid = g,
                !.current_piece = <<[Tetromino(shape, GRID_WIDTH \div 2 - 1, 0)
                                       EXCEPT !.is_bomb = is_bomb]>>,
                !.next_piece_index = next]

Positions ==
  {Position(Round1, GridTwoRows, s, FALSE, 0) : s \in {1, 2, 6}}
  \cup {Position(Round1, g, 0, FALSE, 1) : g \in {GridWell3, GridWell4, GridGap}}
  \cup {Position(Round1, GridStack, s, FALSE, 0) : s \in {2, 3, 4, 5}}
  \cup {Position(Round2Level2, GridWell4, 0, FALSE, 0)}
  \cup {Position(r, GridTwoRows, 1, FALSE, 0) :
          r \in {Round3DoubleLine, Round3LineDouble, Round2Multiplier}}
  \cup {Position(Round2Bomb, GridTwoRows, 1, b, 1) : b \in BOOLEAN}
  \cup {Position(Round2Hold, GridStack, 2, FALSE, 1)}
  \cup {Position(Round2Held, GridStack, 2, FALSE, 1)}
  \cup {Position(Round2Held, GridTower, 2, FALSE, 1)}
  \cup {Position(Round2StraightPack, GridWell4, 0, FALSE, 0)}
  \cup {Position(Round3BombMultiplier, GridTwoRows, 1, TRUE, 1)}
  \cup {Position(r, GridTwoRows, 1, FALSE, 0) : r \in {Round1Lines8, Round47Level9}}

Init ==
  /\ \/ \E pick \in 1..MaxDraw : Is(reset_game(pick))
     \/ \E S \in Positions : Is(S)
  /\ last = Did("init", 0, 0, 0)
  /\ pre = Session
  /\ locks = 0
  /\ clicks = 0
  /\ rewards = 0

----------------------------------------------------------------------------------------------------------------------------------------
(* The handlers of run(): one action per key event, one for update(dt) *)

\* A run is followed until MaxLocks pieces have been locked and the frame in
\* which the last of them locked has ended: key commands arrive while Awake,
\* and in PLAYING the update of that last frame is the last one explored; a
\* round started from the shop after that is followed up to its first piece
Awake == locks < MaxLocks
\* and the shop takes purchase clicks and K_ESCAPE while Browsing
Browsing == clicks < MaxClicks

Sign(b) == IF b THEN 1 ELSE 0

\* the step is handler `op`, given a and b, returning ret, and leaves self as S1
Step(op, a, b, ret, S1) ==
  /\ Becomes(S1)
  /\ last' = Did(op, a, b, ret)
  /\ pre' = Session
  /\ rewards' = IF op \in {"start", "reset_game", "start_next_round"} THEN 0
                ELSE IF op = "update" /\ state = PLAYING /\ S1.state = SHOP
                THEN rewards + 1
                ELSE rewards

\* MENU, K_SPACE
MenuStart ==
  /\ state = MENU
  /\ \E pick1 \in Picks(Session) :
       LET drawn == get_random_piece_from_deck([Session EXCEPT !.grid = EmptyGrid], pick1)
           S1 == [drawn.s EXCEPT !.next_piece_index = drawn.ret]
       IN  \E pick2 \in Picks(S1), roll \in Rolls(S1) :
             Step("start", 0, 0, 0,
                  [spawn_piece(S1, pick2, roll) EXCEPT !.state = PLAYING])
  /\ UNCHANGED <<locks, clicks>>

\* PLAYING, K_LEFT / K_RIGHT / K_DOWN
KeyMove ==
  /\ state = PLAYING /\ Awake
  /\ \E d \in {<<-1, 0>>, <<1, 0>>, <<0, 1>>} :
       LET m == move(Session, d[1], d[2])
       IN  Step("move", d[1], d[2], Sign(m.ret), m.s)
  /\ UNCHANGED <<locks, clicks>>

\* PLAYING, K_UP
KeyRotate ==
  /\ state = PLAYING /\ Awake
  /\ Step("rotate_piece", 0, 0, 0, rotate_piece(Session))
  /\ UNCHANGED <<locks, clicks>>

\* K_SPACE taken as a hard drop in GAME_OVER as well
KeyHardDrop_GameOver ==
  /\ state \in {PLAYING, GAME_OVER}
  /\ Awake \/ state = GAME_OVER
  /\ \E pick \in Picks(Session), roll \in Rolls(Session) :
       Step("hard_drop", 0, 0, 0, hard_drop(Session, pick, roll))
  /\ locks' = IF current_piece = NoPiece THEN locks ELSE locks + 1
  /\ UNCHANGED clicks

\* PLAYING, K_SPACE
KeyHardDrop ==
  /\ state = PLAYING /\ Awake
  /\ \E pick \in Picks(Session), roll \in Rolls(Session) :
       Step("hard_drop", 0, 0, 0, hard_drop(Session, pick, roll))
  /\ locks' = IF current_piece = NoPiece THEN locks ELSE locks + 1
  /\ UNCHANGED clicks

\* PLAYING, K_c
KeyHold ==
  /\ state = PLAYING /\ Awake
  /\ \E pick \in Picks(Session), roll \in Rolls(Session) :
       Step("hold_piece", 0, 0, 0, hold_piece(Session, pick, roll))
  /\ UNCHANGED <<locks, clicks>>

\* GAME_OVER, K_SPACE
GameOverRestart ==
  /\ state = GAME_OVER
  /\ \E pick \in 1..MaxDraw : Step("reset_game", 0, 0, 0, reset_game(pick))
  /\ UNCHANGED <<locks, clicks>>

\* SHOP, the mouse pressed on the button of an upgrade not drawn as owned
ShopBuyUpgrade ==
  /\ state = SHOP /\ Browsing
  /\ \E i \in 1..Len(ShopUpgrades) :
       /\ ~UpgradeOwned(Session, i)
       /\ Step("buy_upgrade", i, 0, Sign(money >= ShopUpgrades[i].cost),
               buy_upgrade(Session, i))
  /\ clicks' = clicks + 1
  /\ UNCHANGED locks

\* SHOP, the mouse pressed on the button of a joker not drawn as owned
ShopBuyJoker ==
  /\ state = SHOP /\ Browsing
  /\ \E i \in 1..Len(ShopJokers) :
       /\ ~JokerOwned(Session, ShopJokers[i].joker_name)
       /\ Step("buy_joker", i, 0, Sign(money >= ShopJokers[i].cost),
               buy_joker(Session, i))
  /\ clicks' = clicks + 1
  /\ UNCHANGED locks

\* SHOP, the mouse pressed on the button of a pack; the random outcomes of one
\* pack are explored for all coins alike and all draws alike
ShopBuyPack ==
  /\ state = SHOP /\ Browsing
  /\ \E i \in 1..Len(ShopPacks), c \in BOOLEAN, v \in 0..MaxPackShape :
       Step("buy_pack", i, 0, Sign(money >= ShopPacks[i].cost),
            buy_pack(Session, i, [k \in 1..5 |-> c], [k \in 1..5 |-> v]))
  /\ clicks' = clicks + 1
  /\ UNCHANGED locks

\* PACK_OPENING, the mouse pressed on ADD TO DECK
PackAdd ==
  /\ state = PACK_OPENING /\ Browsing
  /\ Step("add_to_deck", 0, 0, 0, add_to_deck(Session))
  /\ clicks' = clicks + 1
  /\ UNCHANGED locks

\* PACK_OPENING, K_ESCAPE
PackEsc ==
  /\ state = PACK_OPENING /\ Browsing
  /\ Step("pack_esc", 0, 0, 0, [Session EXCEPT !.state = SHOP])
  /\ clicks' = clicks + 1
  /\ UNCHANGED locks

\* SHOP, the mouse pressed on the continue button
ShopContinue ==
  /\ state = SHOP
  /\ \E pick1 \in Picks(Session), pick2 \in Picks(Session), roll \in Rolls(Session) :
       Step("start_next_round", 0, 0, 0,
            start_next_round(Session, pick1, pick2, roll))
  /\ UNCHANGED <<locks, clicks>>

\* SHOP, K_ESCAPE
ShopEsc ==
  /\ state = SHOP /\ Browsing
  /\ Step("shop_esc", 0, 0, 0, [Session EXCEPT !.state = PLAYING])
  /\ clicks' = clicks + 1
  /\ UNCHANGED locks

\* a key of PLAYING (K_LEFT, K_RIGHT, K_DOWN, K_UP, K_c) pressed in another
\* state: no branch of run() takes it
KeyElsewhere ==
  /\ state # PLAYING
  /\ Step("key_elsewhere", 0, 0, 0, Session)
  /\ UNCHANGED <<locks, clicks>>

\* self.update(dt), once per frame
Frame ==
  /\ \E dt \in {DtShort, DtLong} : Step("update", dt, 0, 0, update(Session, dt))
  /\ UNCHANGED <<locks, clicks>>

Tick ==
  /\ Awake \/ state # PLAYING \/ last.op \notin {"update", "start_next_round"}
  /\ Frame

Next ==
  \/ MenuStart
  \/ KeyMove
  \/ KeyRotate
  \/ KeyHardDrop
  \/ KeyHold
  \/ GameOverRestart
  \/ ShopBuyUpgrade
  \/ ShopBuyJoker
  \/ ShopBuyPack
  \/ PackAdd
  \/ PackEsc
  \/ ShopContinue
  \/ ShopEsc
  \/ KeyElsewhere
  \/ Tick

Spec == Init /\ [][Next]_vars

\* The player leaves the keyboard: run() goes on calling update(dt) once per
\* frame for ever, and no key event arrives
GravitySpec == Init /\ [][Frame]_vars /\ WF_vars(Frame)

----------------------------------------------------------------------------
(* What the claims are stated with.  These definitions say what the spec    *)
(* says, with sets and without the code's loops; the claims compare them     *)
(* with what the handlers above did, seen in last, pre and the session.      *)

\* the cells a piece occupies, as a set of <<x, y>>
CellSet(p) ==
  {<<p.x + rc[2] - 1, p.y + rc[1] - 1>> :
     rc \in {q \in (1..Len(p.shape)) \X (1..Len(p.shape[1])) : p.shape[q[1]][q[2]] = 1}}

Occupied(g, x, y) == g[y + 1][x + 1] # 0

\* translated by (dx, dy), some cell of p is out of the grid's sides, below the
\* floor, or on an Occupied cell of rows 0 and below
Obstructed(g, p, dx, dy) ==
  \E c \in CellSet(p) :
    LET x == c[1] + dx
        y == c[2] + dy
    IN  x < 0 \/ x >= 10 \/ y >= 20 \/ (y >= 0 /\ Occupied(g, x, y))

HasPiece == current_piece # NoPiece
Piece == current_piece[1]
PrePiece == pre.current_piece[1]

\* the last handler was a key command or update that found a piece in play
Ran(op) == last.op = op /\ pre.current_piece # NoPiece

\* C1: check_collision(dx, dy) is true exactly when a translated cell of the
\* piece leaves the grid sideways or downwards or lies on an Occupied cell with
\* y >= 0; cells translated to y < 0 are not looked up in the grid.  (The
\* offsets cover every call the handlers make, and dy = -1 from the top row.)
C1_CollisionContract ==
  HasPiece =>
    \A dx \in -2..2, dy \in -1..1 :
      check_collision(Session, dx, dy) <=> Obstructed(grid, Piece, dx, dy)

\* a piece in the top row that rests on the stack: moving it up would put
\* cells at y = -1 over columns whose bottom row is Occupied
C1_Witness ==
  /\ HasPiece /\ Piece.y = 0
  /\ check_collision(Session, 0, 1)
  /\ ~check_collision(Session, 0, -1)
  /\ \E c \in CellSet(Piece) : c[2] = 0 /\ Occupied(grid, c[1], GRID_HEIGHT - 1)

\* C2: move(dx, dy) returns true and shifts the origin by (dx, dy) exactly when
\* check_collision(dx, dy) is false; otherwise it returns false and nothing of
\* the session changes
C2_MoveContract ==
  Ran("move") =>
    IF ~check_collision(pre, last.a, last.b)
    THEN /\ last.ret = 1
         /\ Session = [pre EXCEPT !.current_piece =
                         <<[PrePiece EXCEPT !.x = @ + last.a, !.y = @ + last.b]>>]
    ELSE /\ last.ret = 0
         /\ Session = pre

\* move(1, 0) of a piece that touches the right wall returned false
C2_Witness ==
  /\ Ran("move") /\ last.a = 1 /\ last.b = 0 /\ last.ret = 0
  /\ \E c \in CellSet(PrePiece) : c[1] = GRID_WIDTH - 1
  /\ Piece.x = PrePiece.x

\* the session when the hard_drop that ran last called clear_lines
BeforeClear ==
  LET d == DropLoop(pre, 0)
  IN  StampPiece([d.s EXCEPT !.score = @ + d.drop_distance * 2])
\* the rows of g without an Empty cell
FullSet(g) == {y \in 0..(Len(g) - 1) : \A x \in 0..(GRID_WIDTH - 1) : Occupied(g, x, y)}
\* the other rows, top to bottom
Survivors(g) == SelectSeq(g, LAMBDA row : \E x \in 1..GRID_WIDTH : row[x] = 0)
\* g with its full rows taken out and as many empty rows put on top
Compacted(g) ==
  LET n == Cardinality(FullSet(g))
      rest == Survivors(g)
  IN  [y \in 1..(n + Len(rest)) |-> IF y <= n THEN [x \in 1..10 |-> 0] ELSE rest[y - n]]

\* C3: clear_lines removes exactly the full rows, keeps the other rows in
\* their order, puts as many empty rows on top, and leaves 20 rows of 10 cells
C3_ClearLinesCompaction ==
  Ran("hard_drop") =>
    /\ grid = Compacted(BeforeClear.grid)
    /\ Len(grid) = 20
    /\ \A y \in 1..20 : Len(grid[y]) = 10
    /\ lines_cleared - pre.lines_cleared = Cardinality(FullSet(BeforeClear.grid))

\* a lock that completed two rows with rows between them that stayed
C3_Witness ==
  /\ Ran("hard_drop")
  /\ \E a, b \in FullSet(BeforeClear.grid) :
       /\ b > a + 1
       /\ \A y \in (a + 1)..(b - 1) : y \notin FullSet(BeforeClear.grid)
  /\ grid = Compacted(BeforeClear.grid)

\* base after the jokers, first to last
RECURSIVE JokerBase(_, _, _)
JokerBase(base, js, n) ==
  IF js = << >> THEN base
  ELSE JokerBase(CASE Head(js) = "Double Points" -> 2 * base
                   [] Head(js) = "Line Bonus" -> base + 50 * n
                   [] OTHER -> base,
                 Tail(js), n)

\* floor(B * score_multiplier + extra_line_bonus * 100) for n rows at level L;
\* score_multiplier is held in halves, and B is a multiple of 50
LineGain(n, L, js, multiplier, extra) ==
  LET B == JokerBase((CASE n = 1 -> 100 [] n = 2 -> 300 [] n = 3 -> 500 [] n = 4 -> 800) * L,
                     js, n)
  IN  (B * multiplier + extra * 200) \div 2

Plain(S) ==
  S.jokers = << >> /\ S.upgrades.score_multiplier = 2 /\ S.upgrades.extra_lines = 0

\* C4: clearing n >= 1 rows at level L adds floor(B * score_multiplier +
\* extra_line_bonus * 100) with the jokers applied in stored order; plainly, one
\* row at level 1 adds 100 and four rows at level 2 add 1600; no row, no change
C4_LineClearScore ==
  Ran("hard_drop") =>
    LET n == Cardinality(FullSet(BeforeClear.grid))
        gain == score - BeforeClear.score
    IN  /\ n = 0 => gain = 0
        /\ n >= 1 => gain = LineGain(n, pre.level, pre.jokers,
                                     pre.upgrades.score_multiplier,
                                     pre.upgrades.extra_lines)
        /\ n = 1 /\ pre.level = 1 /\ Plain(pre) => gain = 100
        /\ n = 4 /\ pre.level = 2 /\ Plain(pre) => gain = 1600
        /\ n = 2 /\ pre.level = 1 /\ pre.upgrades.score_multiplier = 2
             /\ pre.upgrades.extra_lines = 0 =>
               /\ pre.jokers = <<"Double Points", "Line Bonus">> => gain = 700
               /\ pre.jokers = <<"Line Bonus", "Double Points">> => gain = 800

\* two rows cleared with Line Bonus acquired before Double Points
C4_Witness ==
  /\ Ran("hard_drop")
  /\ pre.jokers = <<"Line Bonus", "Double Points">>
  /\ Cardinality(FullSet(BeforeClear.grid)) = 2
  /\ score - BeforeClear.score = 800

\* what the spec says the written cells, the bomb and the rotation are
Written(g, p) ==
  [y \in 1..20 |-> [x \in 1..10 |->
     IF <<x - 1, y - 1>> \in CellSet(p) THEN p.shape_index + 1 ELSE g[y][x]]]
Bombed(g, bx, by) ==
  [y \in 1..20 |-> [x \in 1..10 |->
     IF x - 1 \in (bx - 1)..(bx + 1) /\ y - 1 \in (by - 1)..(by + 1) THEN 0 ELSE g[y][x]]]
RowReversed(m) == [r \in 1..Len(m) |-> m[Len(m) + 1 - r]]
Transposed(m) == [r \in 1..Len(m[1]) |-> [c \in 1..Len(m) |-> m[c][r]]]
Clockwise(m) == Transposed(RowReversed(m))

\* the rows the piece the last hard_drop found could fall, and the piece there
FallRows ==
  CHOOSE n \in 0..20 :
    /\ \A k \in 1..n : ~Obstructed(pre.grid, PrePiece, 0, k)
    /\ Obstructed(pre.grid, PrePiece, 0, n + 1)
Landed == [PrePiece EXCEPT !.y = @ + FallRows]
\* the grid with the landed piece written, and then with its bomb exploded
GridWritten == Written(pre.grid, Landed)
GridStamped ==
  IF Landed.is_bomb THEN Bombed(GridWritten, Landed.x, Landed.y) ELSE GridWritten

\* C5: lock writes the piece's cells with its shape id, then explodes the bomb
\* of a special piece around the piece's origin, then detects and scores full
\* rows on the grid as the bomb left it, then spawns the next piece
C5_LockOrder ==
  Ran("hard_drop") =>
    LET n == Cardinality(FullSet(GridStamped))
        bonus == IF Landed.is_bomb THEN 100 * pre.upgrades.score_multiplier ELSE 0
        lines == IF n = 0 THEN 0
                 ELSE LineGain(n, pre.level, pre.jokers, pre.upgrades.score_multiplier,
                               pre.upgrades.extra_lines)
    IN  /\ grid = Compacted(GridStamped)
        /\ lines_cleared = pre.lines_cleared + n
        /\ score = pre.score + 2 * FallRows + bonus + lines
        /\ HasPiece
        /\ Piece.shape_index = pre.next_piece_index
        /\ Piece.shape = SHAPES[pre.next_piece_index + 1]
        /\ Piece.x = 4 /\ Piece.y = 0

\* a bomb piece completed rows and its bomb punctured all of them: none cleared
C5_Witness ==
  /\ Ran("hard_drop")
  /\ Landed.is_bomb
  /\ FullSet(GridWritten) # {}
  /\ FullSet(GridStamped) = {}
  /\ lines_cleared = pre.lines_cleared
  /\ grid = GridStamped

\* the piece cannot descend
Grounded == state = PLAYING /\ HasPiece /\ check_collision(Session, 0, 1)

\* C6: when the piece cannot descend and only gravity ticks occur, the piece
\* is eventually locked into the grid (and the next piece spawned)
C6_GravityLocks == (Grounded /\ locks = 0) ~> (locks > 0)

\* the kicks of rotate_piece, in their order
KickOrder == <<1, -1, 2, -2>>

\* C7: rotate_piece leaves the piece rotated in place if that fits, else
\* rotated and shifted by the first of +1, -1, +2, -2 that fits, else as it
\* was; nothing but the piece changes
C7_RotateOutcomes ==
  Ran("rotate_piece") =>
    LET turned == [PrePiece EXCEPT !.shape = Clockwise(@)]
        Fits(dx) == ~Obstructed(pre.grid, [turned EXCEPT !.x = @ + dx], 0, 0)
        fitting == {i \in 1..4 : Fits(KickOrder[i])}
    IN  /\ Session = [pre EXCEPT !.current_piece = current_piece]
        /\ IF Fits(0) THEN Piece = turned
           ELSE IF fitting # {}
           THEN LET i == CHOOSE i \in fitting : \A j \in fitting : i <= j
                IN  Piece = [turned EXCEPT !.x = @ + KickOrder[i]]
           ELSE Piece = PrePiece

\* a rotation that fitted neither in place nor at +1 nor at -1, but at +2
C7_Witness ==
  /\ Ran("rotate_piece")
  /\ Piece.x = PrePiece.x + 2
  /\ Piece.shape = Clockwise(PrePiece.shape)
  /\ Piece.shape # PrePiece.shape

RECURSIVE Turns(_, _)
Turns(k, m) == IF k = 0 THEN m ELSE Turns(k - 1, rotate(m))

\* C8: from every rotation state of every catalog shape, and from the geometry
\* of the piece in play, four rotate() calls give back the same matrix
C8_FourRotations ==
  /\ \A s \in 1..7, k \in 0..3 :
       LET m == Turns(k, SHAPES[s]) IN Turns(4, m) = m
  /\ HasPiece =>
       /\ Turns(4, Piece.shape) = Piece.shape
       /\ \E k \in 0..3 : Piece.shape = Turns(k, SHAPES[Piece.shape_index + 1])

\* the fourth rotation of a T piece brought it back to the catalog geometry
C8_Witness ==
  /\ Ran("rotate_piece")
  /\ Piece.shape_index = 2
  /\ Piece.shape = SHAPES[3]
  /\ PrePiece.shape = Turns(3, SHAPES[3])
  /\ PrePiece.shape # SHAPES[3]

\* C9: hard_drop moves the piece straight down by the largest number n of
\* legal steps, adds 2 * n to the score and locks the piece where it stands
C9_HardDrop ==
  Ran("hard_drop") =>
    LET there == [pre EXCEPT !.current_piece = <<Landed>>]
    IN  /\ Landed.x = PrePiece.x
        /\ check_collision(there, 0, 1)
        /\ \E pick \in 1..Len(pre.piece_deck), roll \in BOOLEAN :
             Session = lock_piece([there EXCEPT !.score = @ + 2 * FallRows], pick, roll)

\* a hard drop of three rows or more
C9_Witness ==
  /\ Ran("hard_drop")
  /\ FallRows >= 3
  /\ score >= pre.score + 2 * FallRows
  /\ \A c \in CellSet(Landed) : Occupied(GridWritten, c[1], c[2])

\* the last handler called spawn_piece
Spawned ==
  \/ Ran("hard_drop")
  \/ last.op = "start"
  \/ Ran("hold_piece") /\ pre.upgrades.hold_piece /\ pre.can_hold /\ pre.held_piece = -1

\* C10: a spawn makes the piece with its shape's default geometry at (4, 0)
\* and sets can_hold (hold_piece clears it again before it returns); if the
\* piece collides where it is the session is in GAME_OVER with game_over set,
\* otherwise the session is in play
C10_Spawn ==
  /\ Spawned =>
       /\ HasPiece
       /\ Piece.shape = SHAPES[Piece.shape_index + 1]
       /\ Piece.x = 4 /\ Piece.y = 0
       /\ can_hold = (last.op # "hold_piece")
       /\ IF Obstructed(grid, Piece, 0, 0)
          THEN state = GAME_OVER /\ game_over
          ELSE state = PLAYING /\ ~game_over
  /\ state = PLAYING =>
       \A pick \in Picks(Session), roll \in Rolls(Session) :
         LET R == spawn_piece(Session, pick, roll)
             p == R.current_piece[1]
         IN  /\ p.shape = SHAPES[next_piece_index + 1]
             /\ p.x = 4 /\ p.y = 0
             /\ R.can_hold
             /\ IF Obstructed(R.grid, p, 0, 0)
                THEN R.state = GAME_OVER /\ R.game_over
                ELSE R.state = PLAYING /\ R.game_over = game_over

\* the piece spawned by a lock collides with the stack: the game is over
C10_Witness ==
  /\ Ran("hard_drop")
  /\ state = GAME_OVER /\ game_over
  /\ Piece.x = 4 /\ Piece.y = 0
  /\ Obstructed(grid, Piece, 0, 0)

\* the handlers a key command of play or a frame ends in, outside PLAYING too
PlayOps == {"move", "rotate_piece", "hold_piece", "hard_drop", "update", "key_elsewhere"}

\* C11: the session enters GAME_OVER only in a handler that spawns, with the
\* spawned piece colliding where it is; in GAME_OVER no command of play is
\* dispatched, and neither a key of play nor a frame changes the grid, the
\* piece, the score or the state
C11_GameOverTerminal ==
  /\ state = GAME_OVER /\ pre.state # GAME_OVER =>
       /\ last.op \in {"hard_drop", "hold_piece"}
       /\ game_over
       /\ HasPiece /\ Piece.x = 4 /\ Piece.y = 0
       /\ Obstructed(grid, Piece, 0, 0)
  /\ pre.state = GAME_OVER =>
       /\ last.op \in {"update", "key_elsewhere", "reset_game"}
       /\ last.op \in PlayOps =>
            /\ grid = pre.grid
            /\ current_piece = pre.current_piece
            /\ score = pre.score
            /\ state = GAME_OVER

\* a key of play was pressed in GAME_OVER
C11_Witness ==
  /\ pre.state = GAME_OVER
  /\ last.op = "key_elsewhere"
  /\ state = GAME_OVER /\ game_over
  /\ Obstructed(grid, Piece, 0, 0)

\* the hold the last handler was asked for was permitted
HoldPermitted == pre.upgrades.hold_piece /\ pre.can_hold

\* C12: hold_piece changes nothing unless the hold upgrade is owned and
\* can_hold is set; with an empty slot a permitted hold stores the shape id of
\* the piece and spawns the lookahead shape; after a permitted hold can_hold is
\* false and a further hold changes nothing
C12_HoldGate ==
  Ran("hold_piece") =>
    IF ~HoldPermitted THEN Session = pre
    ELSE /\ ~can_hold
         /\ held_piece = PrePiece.shape_index
         /\ grid = pre.grid
         /\ pre.held_piece = -1 =>
              /\ HasPiece
              /\ Piece.shape_index = pre.next_piece_index
              /\ Piece.shape = SHAPES[pre.next_piece_index + 1]
              /\ Piece.x = 4 /\ Piece.y = 0
         /\ \A pick \in Picks(Session), roll \in Rolls(Session) :
              hold_piece(Session, pick, roll) = Session

\* a second hold, asked for after a hold and before any lock, did nothing
C12_Witness ==
  /\ Ran("hold_piece")
  /\ pre.upgrades.hold_piece /\ ~pre.can_hold
  /\ locks = 0
  /\ held_piece # -1
  /\ Session = pre

\* C13: a permitted hold with an occupied slot exchanges the shape id of the
\* piece with the held one, puts the piece at (4, 0) in the catalog geometry
\* of its new shape and clears can_hold; nothing else changes
C13_HoldSwap ==
  Ran("hold_piece") /\ HoldPermitted /\ pre.held_piece # -1 =>
    /\ held_piece = PrePiece.shape_index
    /\ Piece = [shape_index |-> pre.held_piece,
                shape |-> SHAPES[pre.held_piece + 1],
                x |-> 4, y |-> 0, is_bomb |-> PrePiece.is_bomb]
    /\ ~can_hold
    /\ Session = [pre EXCEPT !.current_piece = current_piece,
                             !.held_piece = held_piece,
                             !.can_hold = FALSE]

\* a piece that had been rotated and moved was exchanged with the held I piece
C13_Witness ==
  /\ Ran("hold_piece") /\ HoldPermitted
  /\ pre.held_piece = 0
  /\ PrePiece.shape_index = 2
  /\ PrePiece.shape # SHAPES[3]
  /\ PrePiece.x # 4 /\ PrePiece.y # 0
  /\ held_piece = 2
  /\ Piece.shape = SHAPES[1]

\* a session whose grid has every cell occupied
AllOccupied == [Round1 EXCEPT !.grid = [y \in 1..20 |-> [x \in 1..10 |-> 1]]]

\* C14: explode_bomb empties exactly the cells of the grid within 1 of the
\* origin in x and in y and adds 200 * score_multiplier to the score, whatever
\* lines are cleared afterwards; at (5, 5) on a full grid it empties
\* [4..6] x [4..6]
C14_BombEffect ==
  /\ LET B == explode_bomb(AllOccupied, 5, 5)
     IN  /\ \A x \in 0..9, y \in 0..19 :
               (B.grid[y + 1][x + 1] = 0) <=> (x \in 4..6 /\ y \in 4..6)
         /\ B.score = AllOccupied.score + 200
         /\ B = [AllOccupied EXCEPT !.grid = B.grid, !.score = B.score]
  /\ Ran("hard_drop") /\ Landed.is_bomb =>
       LET before == [pre EXCEPT !.grid = GridWritten]
           B == explode_bomb(before, Landed.x, Landed.y)
           n == Cardinality(FullSet(GridStamped))
       IN  /\ \A x \in 0..9, y \in 0..19 :
                 B.grid[y + 1][x + 1] =
                   IF x - Landed.x \in -1..1 /\ y - Landed.y \in -1..1
                   THEN 0 ELSE GridWritten[y + 1][x + 1]
           /\ 2 * B.score = 2 * pre.score + 200 * pre.upgrades.score_multiplier
           /\ B = [before EXCEPT !.grid = B.grid, !.score = B.score]
           /\ 2 * score = 2 * pre.score + 4 * FallRows
                          + 200 * pre.upgrades.score_multiplier
                          + 2 * (IF n = 0 THEN 0
                                 ELSE LineGain(n, pre.level, pre.jokers,
                                               pre.upgrades.score_multiplier,
                                               pre.upgrades.extra_lines))

\* a bomb with the multiplier at 1.5 emptied cells of the stack and added 300
C14_Witness ==
  /\ Ran("hard_drop") /\ Landed.is_bomb
  /\ pre.upgrades.score_multiplier = 3
  /\ \E x \in 0..9, y \in 0..19 :
       /\ x - Landed.x \in -1..1 /\ y - Landed.y \in -1..1
       /\ pre.grid[y + 1][x + 1] # 0
       /\ GridStamped[y + 1][x + 1] = 0
  /\ score = pre.score + 2 * FallRows + 300

\* C15: an update in PLAYING adds dt to fall_time; if the sum reaches
\* fall_speed it makes one attempt to move the piece down one row and sets
\* fall_time to 0, however many intervals dt spans; otherwise the piece stays
C15_GravityTick ==
  last.op = "update" /\ pre.state = PLAYING /\ pre.current_piece # NoPiece =>
    LET acc == pre.fall_time + last.a
    IN  /\ grid = pre.grid
        /\ IF acc >= pre.fall_speed
           THEN /\ fall_time = 0
                /\ Piece = IF Obstructed(pre.grid, PrePiece, 0, 1) THEN PrePiece
                           ELSE [PrePiece EXCEPT !.y = @ + 1]
           ELSE /\ fall_time = acc
                /\ Piece = PrePiece

\* a frame as long as two intervals moved the piece one row, with room for two
C15_Witness ==
  /\ last.op = "update" /\ pre.state = PLAYING
  /\ pre.fall_time + last.a >= 2 * pre.fall_speed
  /\ Piece.y = PrePiece.y + 1
  /\ ~Obstructed(grid, Piece, 0, 1)
  /\ fall_time = 0

\* C16: after clear_lines no row of the grid is full, and a second clear_lines
\* right after it changes nothing of the session
C16_ClearIdempotent ==
  Ran("hard_drop") =>
    LET once == clear_lines(BeforeClear)
    IN  /\ once.grid = grid
        /\ FullSet(once.grid) = {}
        /\ Len(FullRows(once.grid)) = 0
        /\ clear_lines(once) = once

\* a lock that cleared three rows or more
C16_Witness ==
  /\ Ran("hard_drop")
  /\ Cardinality(FullSet(GridStamped)) >= 3
  /\ lines_cleared >= pre.lines_cleared + 3
  /\ FullSet(grid) = {}

\* C17: a clear_lines that removed n >= 1 rows raises the level by exactly 1
\* and makes the fall speed max(100, fall_speed - 50) if lines_cleared has
\* reached 10 times the level as it was; otherwise it leaves both
C17_LevelCheck ==
  Ran("hard_drop") =>
    LET n == lines_cleared - pre.lines_cleared
        up == n >= 1 /\ lines_cleared >= pre.level * 10
    IN  /\ n = Cardinality(FullSet(GridStamped))
        /\ level = IF up THEN pre.level + 1 ELSE pre.level
        /\ fall_speed = IF ~up THEN pre.fall_speed
                        ELSE IF pre.fall_speed - 50 >= 100 THEN pre.fall_speed - 50
                        ELSE 100

\* the tenth line of round 1 raised the level to 2 and the fall speed to 450
C17_Witness ==
  /\ Ran("hard_drop")
  /\ pre.lines_cleared < 10 /\ lines_cleared >= 10
  /\ pre.level = 1 /\ level = 2
  /\ pre.fall_speed = 500 /\ fall_speed = 450

\* the level a session that started its round at level 1 has after n lines
StepLevel(n) == 1 + n \div 10

\* C18: level and fall speed are step functions of lines_cleared: the level
\* is 1 + lines_cleared \div 10, or 3 while that is below 3 in a round started
\* with Level Boost, and the fall speed is max(100, 550 - 50 * level); within a
\* round lines_cleared and level never decrease, the fall speed never
\* increases, and while lines_cleared stays both stay
C18_LevelStepFunction ==
  /\ \/ level = StepLevel(lines_cleared)
     \/ level = 3 /\ StepLevel(lines_cleared) < 3
                  /\ \E k \in 1..Len(jokers) : jokers[k] = "Level Boost"
  /\ fall_speed = IF 550 - 50 * level >= 100 THEN 550 - 50 * level ELSE 100
  /\ last.op \notin {"init", "reset_game", "start_next_round"} =>
       /\ round_number = pre.round_number
       /\ lines_cleared >= pre.lines_cleared
       /\ level >= pre.level
       /\ fall_speed <= pre.fall_speed
       /\ lines_cleared = pre.lines_cleared =>
            level = pre.level /\ fall_speed = pre.fall_speed

\* a level-up at the floor of the fall speed: level 10, still 100 ms
C18_Witness ==
  /\ Ran("hard_drop")
  /\ lines_cleared > pre.lines_cleared
  /\ pre.level = 9 /\ level = 10
  /\ pre.fall_speed = 100 /\ fall_speed = 100

\* C19 as stated: round_target = 1000 * round_number with round_number >= 1,
\* and round_number changes only by +1 in start_next_round
C19_OnlyNextRound ==
  /\ round_target = 1000 * round_number
  /\ round_number >= 1
  /\ round_number # pre.round_number =>
       last.op = "start_next_round" /\ round_number = pre.round_number + 1

\* C19: round_target = 1000 * round_number with round_number >= 1;
\* round_number changes only by +1 in start_next_round, or back to 1 in the
\* reset_game of a restart
C19_RoundTarget ==
  /\ round_target = 1000 * round_number
  /\ round_number >= 1
  /\ last.op = "start_next_round" => round_number = pre.round_number + 1
  /\ round_number # pre.round_number =>
       \/ last.op = "start_next_round"
       \/ last.op = "reset_game" /\ round_number = 1

\* a game lost in a later round was restarted: the round is 1 again
C19_Witness ==
  /\ last.op = "reset_game"
  /\ pre.state = GAME_OVER
  /\ pre.round_number > 1
  /\ round_number = 1 /\ round_target = 1000

\* the values of the sequence deck
DeckShapes(deck) == {deck[k] : k \in 1..Len(deck)}

\* C20: start_next_round adds 1 to the round, zeroes score and lines_cleared,
\* sets level 1 and fall speed 500 (3 and 400 with Level Boost), empties the
\* grid, draws the lookahead anew, spawns a piece and enters PLAYING; deck,
\* jokers, upgrades, held piece and money stay
C20_StartNextRound ==
  last.op = "start_next_round" =>
    LET boost == \E k \in 1..Len(pre.jokers) : pre.jokers[k] = "Level Boost"
    IN  /\ pre.state = SHOP
        /\ round_number = pre.round_number + 1
        /\ score = 0 /\ lines_cleared = 0
        /\ level = IF boost THEN 3 ELSE 1
        /\ fall_speed = IF boost THEN 400 ELSE 500
        /\ \A y \in 1..20 : \A x \in 1..10 : grid[y][x] = 0
        /\ Len(grid) = 20 /\ \A y \in 1..20 : Len(grid[y]) = 10
        /\ next_piece_index \in DeckShapes(pre.piece_deck)
        /\ HasPiece
        /\ Piece.shape_index \in DeckShapes(pre.piece_deck)
        /\ Piece.shape = SHAPES[Piece.shape_index + 1]
        /\ Piece.x = 4 /\ Piece.y = 0
        /\ state = PLAYING
        /\ piece_deck = pre.piece_deck
        /\ jokers = pre.jokers
        /\ upgrades = pre.upgrades
        /\ held_piece = pre.held_piece
        /\ money = pre.money

\* a round started with Level Boost bought in the shop before it
C20_Witness ==
  /\ last.op = "start_next_round"
  /\ pre.jokers = <<"Level Boost">>
  /\ pre.level # 3
  /\ level = 3 /\ fall_speed = 400
  /\ round_number = pre.round_number + 1
  /\ score = 0 /\ pre.score > 0

\* one of each of the 7 catalog shapes
OneOfEach == <<0, 1, 2, 3, 4, 5, 6>>

\* C21: get_random_piece_from_deck returns a shape id that is in the deck as
\* the call leaves it, and leaves a deck that is not empty; called with an
\* empty deck it leaves the deck with one of each of the 7 shapes
C21_DrawNeverFails ==
  /\ LET after == get_random_piece_from_deck(Session, 1).s.piece_deck
     IN  /\ after # << >>
         /\ \A pick \in 1..Len(after) :
              LET d == get_random_piece_from_deck(Session, pick)
              IN  d.ret \in DeckShapes(d.s.piece_deck)
  /\ LET Empty == [Session EXCEPT !.piece_deck = << >>]
         after == get_random_piece_from_deck(Empty, 1).s.piece_deck
     IN  /\ after = OneOfEach
         /\ \A pick \in 1..Len(after) :
              LET d == get_random_piece_from_deck(Empty, pick)
              IN  /\ d.ret \in DeckShapes(d.s.piece_deck)
                  /\ d.s = [Empty EXCEPT !.piece_deck = OneOfEach]

\* a lock drew the lookahead from a deck a pack had been added to
C21_Witness ==
  /\ Ran("hard_drop")
  /\ Len(piece_deck) > 7
  /\ piece_deck = pre.piece_deck
  /\ next_piece_index \in DeckShapes(piece_deck)

\* the number of copies of shape s in the sequence deck
Copies(deck, s) == Cardinality({k \in 1..Len(deck) : deck[k] = s})

\* C22 as stated: no handler, restart included, removes an element of the
\* deck; a draw does not consume; the size of the deck changes only when pack
\* contents are appended
C22_DeckNeverShrinks ==
  /\ \A s \in 0..6 : Copies(piece_deck, s) >= Copies(pre.piece_deck, s)
  /\ Len(piece_deck) # Len(pre.piece_deck) => last.op = "add_to_deck"

\* C22: the deck changes only when pack contents are appended to it and when
\* the reset_game of a restart replaces it by one of each of the 7 shapes,
\* which removes what packs had added; no other handler changes it, and a draw
\* does not consume the drawn element
C22_DeckGrowsOrResets ==
  /\ last.op = "add_to_deck" => piece_deck = pre.piece_deck \o pre.pack_contents
  /\ last.op = "reset_game" => piece_deck = OneOfEach
  /\ last.op \notin {"add_to_deck", "reset_game"} => piece_deck = pre.piece_deck
  /\ \A pick \in Picks(Session) :
       get_random_piece_from_deck(Session, pick).s.piece_deck = piece_deck

\* a game played with the four pieces of a Straight Pack in the deck was lost
\* and restarted: the deck has 7 pieces again
C22_Witness ==
  /\ last.op = "reset_game"
  /\ Len(pre.piece_deck) = 11
  /\ Copies(pre.piece_deck, 0) = 5
  /\ piece_deck = OneOfEach

\* the last handler was a hold into the empty slot, which spawns
HoldStored == Ran("hold_piece") /\ HoldPermitted /\ pre.held_piece = -1

\* C23: a spawned piece has the shape the lookahead held right before the
\* spawn, and the spawn puts one fresh draw from the deck into the lookahead;
\* move, rotate, the swap form of hold and the tick leave the lookahead
C23_Lookahead ==
  /\ Ran("hard_drop") \/ HoldStored =>
       /\ Piece.shape_index = pre.next_piece_index
       /\ next_piece_index \in DeckShapes(piece_deck)
  /\ state = PLAYING =>
       \A pick \in Picks(Session), roll \in Rolls(Session) :
         LET R == spawn_piece(Session, pick, roll)
         IN  /\ R.current_piece[1].shape_index = next_piece_index
             /\ R.next_piece_index = piece_deck[pick]
  /\ \/ last.op \in {"move", "rotate_piece", "update", "key_elsewhere"}
     \/ Ran("hold_piece") /\ ~HoldStored
     => next_piece_index = pre.next_piece_index

\* a lock spawned the lookahead shape and drew a different one for the next
C23_Witness ==
  /\ Ran("hard_drop")
  /\ Piece.shape_index = pre.next_piece_index
  /\ next_piece_index # pre.next_piece_index
  /\ Piece.shape_index # PrePiece.shape_index

\* C24: the grid is always 20 rows of 10 cells; move, rotate_piece, hold_piece
\* in both forms and the tick leave every cell; in play the grid changes only
\* in the lock of hard_drop, by the cells written, the bomb and the compaction
C24_BoardFrame ==
  /\ Len(grid) = 20 /\ \A y \in 1..20 : Len(grid[y]) = 10
  /\ last.op \in {"move", "rotate_piece", "hold_piece", "update", "key_elsewhere"}
       => grid = pre.grid
  /\ grid # pre.grid =>
       last.op \in {"hard_drop", "start", "start_next_round", "reset_game"}
  /\ Ran("hard_drop") => grid = Compacted(GridStamped)

\* the gravity step of a frame was blocked by the stack: the grid is as it was
C24_Witness ==
  /\ last.op = "update" /\ pre.state = PLAYING
  /\ pre.fall_time + last.a >= pre.fall_speed
  /\ Obstructed(pre.grid, PrePiece, 0, 1)
  /\ grid = pre.grid
  /\ Piece = PrePiece

\* C25: from every state in play the descent loop of hard_drop ends after at
\* most 20 steps, with the piece blocked one row further down; hard_drop then
\* locks the piece
C25_HardDropTerminates ==
  /\ state = PLAYING /\ HasPiece =>
       LET d == DropLoop(Session, 0)
       IN  /\ d.drop_distance \in 0..20
           /\ d.s.current_piece[1] = [Piece EXCEPT !.y = @ + d.drop_distance]
           /\ Obstructed(grid, d.s.current_piece[1], 0, 1)
  /\ Ran("hard_drop") =>
       /\ DropLoop(pre, 0).drop_distance = FallRows
       /\ FallRows <= 20
       /\ locks > 0
       /\ grid = Compacted(GridStamped)

\* a hard drop from the top row to the floor of the empty grid
C25_Witness ==
  /\ Ran("hard_drop")
  /\ FallRows >= 18
  /\ \E c \in CellSet(Landed) : c[2] = 19

\* C26: in PLAYING every cell of the piece is inside the grid and on an empty
\* cell of the grid
C26_PieceInsideAndFree ==
  state = PLAYING /\ HasPiece =>
    \A c \in CellSet(Piece) :
      /\ c[1] \in 0..9 /\ c[2] \in 0..19
      /\ grid[c[2] + 1][c[1] + 1] = 0

\* C27: no row of the grid is full between handlers; the clear_lines of a lock
\* finds 0 to 4 full rows, an index of the score table
C27_NoFullRow ==
  /\ FullSet(grid) = {}
  /\ Ran("hard_drop") =>
       LET n == Len(FullRows(BeforeClear.grid))
       IN  /\ n = Cardinality(FullSet(GridStamped))
           /\ n \in 0..4
           /\ n + 1 \in 1..Len(LineScoreTable)

\* a lock that found four full rows and left none
C27_Witness ==
  /\ Ran("hard_drop")
  /\ Len(FullRows(BeforeClear.grid)) = 4
  /\ FullSet(grid) = {}
  /\ score >= pre.score + 800

\* the level a loop `while lines >= level * 10: level += 1` ends with
RECURSIVE LevelLoop(_, _)
LevelLoop(lv, lines) == IF lines >= lv * 10 THEN LevelLoop(lv + 1, lines) ELSE lv

\* C28: lines_cleared < level * 10 in every state, and the level after a
\* clear_lines is the level a catch-up loop would give
C28_NoPendingLevelUp ==
  /\ lines_cleared < level * 10
  /\ Ran("hard_drop") /\ lines_cleared > pre.lines_cleared =>
       level = LevelLoop(pre.level, lines_cleared)
  /\ last.op = "start_next_round" => level = LevelLoop(level, lines_cleared)

\* the lines of a lock reached 90 at level 9: the level is 10, nothing pending
C28_Witness ==
  /\ Ran("hard_drop")
  /\ pre.level = 9 /\ pre.lines_cleared < 90
  /\ lines_cleared >= 90
  /\ level = 10
  /\ LevelLoop(pre.level, lines_cleared) = 10

\* C29: the reward of a round is credited at most once in the round
C29_RewardOnce == rewards <= 1

\* C30: level >= 1 and fall_speed = max(100, 550 - 50 * level), a multiple of
\* 50 from 100 to 500
C30_FallInterval ==
  /\ level >= 1
  /\ fall_speed = IF 550 - 50 * level >= 100 THEN 550 - 50 * level ELSE 100
  /\ fall_speed \in {50 * k : k \in 2..10}

\* a round started with Level Boost: level 3, 400 ms
C30_Witness ==
  /\ last.op = "start_next_round"
  /\ \E k \in 1..Len(jokers) : jokers[k] = "Level Boost"
  /\ level = 3
  /\ fall_speed = 400
  /\ clicks > 0

\* C31: in every state the deck is not empty and holds at least one copy of
\* each of the 7 catalog shapes, so the refill branch of a draw is never taken:
\* a draw leaves the session as it is
C31_DeckComplete ==
  /\ piece_deck # << >>
  /\ \A s \in 0..(NumShapes - 1) : Copies(piece_deck, s) >= 1
  /\ RefilledDeck(piece_deck) = piece_deck
  /\ \A pick \in 1..Len(piece_deck) :
       get_random_piece_from_deck(Session, pick).s = Session

\* the three pieces of a Basic Pack were appended to the deck of 7: every
\* shape is still there
C31_Witness ==
  /\ last.op = "add_to_deck"
  /\ Len(pre.pack_contents) = 3
  /\ Len(piece_deck) = Len(pre.piece_deck) + 3
  /\ \A s \in 0..(NumShapes - 1) : Copies(piece_deck, s) >= 1

====
